---- MODULE Spec2Model ----
(***************************************************************************)
(* Model of SmartVideoRecordRTSP.py: one smart-record session driven by    *)
(* GLib one-shot timers (do_start, do_stop, _fallback, do_quit), the bus   *)
(* watch (on_bus), the sr-done and pad-added signal handlers, and the      *)
(* try/finally cleanup of main().                                          *)
(*                                                                         *)
(* The GLib main loop is modelled as it runs: one iteration collects the   *)
(* sources that are ready (in attach order) and dispatches all of them;    *)
(* loop.quit() only clears the running flag, which loop.run() tests after  *)
(* the iteration.  sr-done and pad-added are GObject signals emitted by    *)
(* the pipeline on its own threads: their handlers do not go through the   *)
(* loop and run beside main() and beside each other, one step per write    *)
(* or read of state that another thread reads or writes.                   *)
(***************************************************************************)
EXTENDS Naturals, Integers, Sequences, FiniteSets, TLC

\* ---- program constants ------------------------------------------------
BACK_SEC == 3
FRONT_SEC == 5
CACHE_SEC == 30
START_DELAY_SEC == 5
WATCHDOG_SEC == 6
QUIT_DELAY_SEC == 1
DEFAULT_WIDTH == 1920
DEFAULT_HEIGHT == 1080
NAME_LEN == 32
SESSION_ID == 1234

\* ---- bounds of the model ----------------------------------------------
MaxBack == 2       \* InitAnyConfig draws the pre-roll from 0..MaxBack
MaxCache == 1      \* InitAnyConfig draws the cache size from 0..MaxCache
MaxSetup == 1      \* seconds that may pass before the timers are scheduled
MaxLate == 1       \* seconds a due timer may wait for its dispatch, and seconds
                   \* the sr-done handler may take from entry to return
MaxMsgs == 1       \* bus messages the pipeline posts in one run
MaxPads == 2       \* pad-added events in one run
MaxNameLen == 2    \* InitAnyContext draws names of at most MaxNameLen bytes

MaxTime == MaxSetup + START_DELAY_SEC + FRONT_SEC + 1 + WATCHDOG_SEC + 3 * MaxLate + 1

MsgTypes == {"ERROR", "EOS", "OTHER"}
Buffers == {"sessionid_gbuf", "user_ctx_gbuf"}

VARIABLES
    pc,            \* position of main(): construct, alloc, start, run, free_sess, free_ctx, ensure_stop, done
    exitCode,      \* value main() returns (-1 while running)
    now,           \* clock, whole seconds
    schedAt,       \* clock value when the start/stop timers were scheduled
    backSec,       \* the module global BACK_SEC
    cacheSec,      \* nvurisrcbin's smart-rec-cache property, set from CACHE_SEC
    pipeline,      \* "NULL" or "PLAYING"
    loopRunning,   \* GMainLoop is_running flag
    timers,        \* attached one-shot timeout sources, in attach order
    pending,       \* sources the current loop iteration still has to dispatch
    busQueue,      \* messages queued on the pipeline bus
    posted,        \* number of messages posted so far
    busRet,        \* what the last on_bus call returned ("none" before any)
    SR_DONE,       \* SR_DONE["got"]
    fallbackFired, \* _fallback found the flag unset and forced the quit
    allocs,        \* per buffer: number of pyds.alloc_buffer calls
    frees,         \* per buffer: number of pyds.free_gbuffer calls
    startIssued,   \* number of start-sr emissions
    stopIssued,    \* number of stop-sr emissions
    backIssued,    \* pre-roll passed with start-sr (-1 before)
    stopAt,        \* clock value of the stop-sr emission (-1 before)
    quitCalls,     \* loop.quit() calls made by callbacks
    stopCalls,     \* pipeline.set_state(NULL) calls made by callbacks
    muxW, muxH,    \* nvstreammux width / height properties
    sink0,         \* mux.sink_0 has been requested
    qSinkLinked,   \* src_pad -> q_src.sink is linked
    qSrcLinked,    \* q_src.src -> mux.sink_0 is linked
    pads,          \* number of pad-added events so far
    lastPad,       \* the pad-added handler that returned last: its inputs and the mux
                   \* geometry it found
    handlers,      \* the pad-added handlers that are running, in the order they began
    boundCaps,     \* the caps of the pad that was linked through q_src into the mux
    faults,        \* the calls that may raise in this run
    startFailed,   \* the start-sr emission raised
    freeFailed,    \* the buffers whose pyds.free_gbuffer call raised
    escaped,       \* an exception left on_sr_done
    ctxIn,         \* the identifier and name main() writes into the user context
    ctxBuf,        \* contents of the user-context buffer
    ctxOut,        \* what on_sr_done decoded from the echoed context
    srPc,          \* position of the sr-done handler: idle, report, flag, schedule, returned
    srAt           \* clock value when the sr-done handler was entered (-1 before)

loopVars == <<pipeline, loopRunning, timers, busQueue, busRet, SR_DONE, fallbackFired,
              startIssued, stopIssued, backIssued, stopAt, quitCalls, stopCalls>>
cfgVars == <<backSec, cacheSec, schedAt>>
bufVars == <<allocs, frees>>
negVars == <<muxW, muxH, sink0, qSinkLinked, qSrcLinked, pads, lastPad, handlers, boundCaps>>
faultVars == <<faults, startFailed, freeFailed, escaped>>
ctxVars == <<ctxIn, ctxBuf, ctxOut, srPc, srAt>>
vars == <<pc, exitCode, now, pending, posted, loopVars, cfgVars, bufVars, negVars,
          faultVars, ctxVars>>

Min(a, b) == IF a <= b THEN a ELSE b

\* ---- pure helpers --------------------------------------------------------

\* line 158: min(BACK_SEC, int(nvuri.get_property("smart-rec-cache") or BACK_SEC));
\* Python's `or` replaces a falsy property value (0) by BACK_SEC.
ClampBack(p, c) == Min(p, IF c # 0 THEN c ELSE p)

\* line 196 / 197 / 180 / 118: GLib.timeout_add_seconds(n, cb) called at time t
StartDeadline(t) == t + START_DELAY_SEC
StopDeadlineNoSlack(t) == t + START_DELAY_SEC + FRONT_SEC
StopDeadline(t) == t + START_DELAY_SEC + FRONT_SEC + 1
FallbackDeadline(t) == t + WATCHDOG_SEC
QuitDeadline(t) == t + QUIT_DELAY_SEC

Timer(cb, due) == [cb |-> cb, due |-> due]
RemoveTimer(k) == SelectSeq(timers, LAMBDA t : t.cb # k)
Kinds(seq) == [i \in 1..Len(seq) |-> seq[i].cb]

\* The sources a loop iteration finds ready, in attach order: the bus watch
\* (attached at line 152, before every timer) when a message is queued, then
\* every timeout source whose deadline has passed.
Ready ==
    (IF busQueue # <<>> THEN <<"bus">> ELSE <<>>)
        \o Kinds(SelectSeq(timers, LAMBDA t : t.due <= now))

\* ---- capabilities of a discovered pad -------------------------------------
Absent == [kind |-> "absent", val |-> 0]
Unparsable == [kind |-> "other", val |-> 0]
IntField(v) == [kind |-> "int", val |-> v]
WidthFields == {Absent, Unparsable, IntField(640)}
HeightFields == {Absent, Unparsable, IntField(480)}
NoCaps == [present |-> FALSE, width |-> Absent, height |-> Absent]
CapsSet == {NoCaps} \cup [present : {TRUE}, width : WidthFields, height : HeightFields]

\* lines 80-81: int(st.get_value(f)) if st.has_field(f) else <default>
Raises(f) == f.kind = "other"
CapsWidth(f) == IF f.kind = "absent" THEN DEFAULT_WIDTH ELSE f.val
CapsHeight(f) == IF f.kind = "absent" THEN DEFAULT_HEIGHT ELSE f.val

NoPad == [sinkpad |-> FALSE, caps |-> NoCaps, before |-> <<0, 0>>]

\* ---- the user context (lines 24-28, 126-131, 96-113) -------------------------
\* A name is a sequence of bytes.  The bytes the model draws from: NUL, the
\* ASCII letter A, and 0xFF, which no UTF-8 text contains.
NameBytes == {0, 65, 255}
SR_DEMO == <<115, 114, 45, 100, 101, 109, 111>>
SeqsUpTo(S, n) == UNION {[1..k -> S] : k \in 0..n}
NameSet == SeqsUpTo(NameBytes, MaxNameLen)
\* identifiers a c_int field stores unchanged
IdSet == {-1, SESSION_ID}
ContextInputs == [id : IdSet, name : NameSet]

\* reading a char array yields the bytes before the first NUL
RECURSIVE CStr(_)
CStr(field) ==
    IF field = <<>> \/ Head(field) = 0 THEN <<>> ELSE <<Head(field)>> \o CStr(Tail(field))
\* line 131: assigning bytes to the c_char * 32 field copies them up to the
\* first NUL; the rest of the field keeps the zeros of pyds.alloc_buffer
PadField(bytes) ==
    LET str == CStr(bytes)
    IN  [i \in 1..NAME_LEN |-> IF i <= Len(str) THEN str[i] ELSE 0]
\* lines 127-131: the buffer once it is allocated and written
WriteContext(c) == [state |-> "written", sessionid |-> c.id, name |-> PadField(c.name)]
\* before line 127 there is no buffer
NoBuf == [state |-> "none", sessionid |-> 0, name |-> PadField(<<>>)]
\* line 207: the block is back with the allocator; what a later read finds in it
\* is not defined (the old bytes, allocator bookkeeping, another object), and
\* this value stands for every such contents
ReleasedBuf == [state |-> "released", sessionid |-> 0, name |-> PadField(<<>>)]

\* line 110: decode(errors="ignore") drops every byte that is not part of valid
\* UTF-8; of the bytes drawn here that is 0xFF
DecodeIgnore(bytes) == SelectSeq(bytes, LAMBDA b : b < 128)

\* line 112: str() of a bytes value is its repr: b'...', with " as the quote
\* when the value holds ' but not ", and escapes for \ ' tab, newline, return
\* and every byte that is not printable ASCII
HexDigit(d) == IF d < 10 THEN 48 + d ELSE 87 + d
ReprByte(b, quote) ==
    IF b = 92 THEN <<92, 92>>
    ELSE IF b = 39 /\ quote = 39 THEN <<92, 39>>
    ELSE IF b = 9 THEN <<92, 116>>
    ELSE IF b = 10 THEN <<92, 110>>
    ELSE IF b = 13 THEN <<92, 114>>
    ELSE IF b < 32 \/ b >= 127 THEN <<92, 120, HexDigit(b \div 16), HexDigit(b % 16)>>
    ELSE <<b>>
RECURSIVE ReprBody(_, _)
ReprBody(bytes, quote) ==
    IF bytes = <<>> THEN <<>>
    ELSE ReprByte(Head(bytes), quote) \o ReprBody(Tail(bytes), quote)
BytesRepr(bytes) ==
    LET Has(b) == \E i \in 1..Len(bytes) : bytes[i] = b
        quote == IF Has(39) /\ ~Has(34) THEN 34 ELSE 39
    IN  <<98, quote>> \o ReprBody(bytes, quote) \o <<quote>>

NoReport == [seen |-> FALSE, how |-> "none", sessionid |-> 0, name |-> <<>>]
\* line 115: the handler reports the error instead of the context
ErrorReport == [seen |-> FALSE, how |-> "error", sessionid |-> 0, name |-> <<>>]
\* line 113 on a released buffer: the values printed are not defined
UndefinedReport == [seen |-> TRUE, how |-> "undefined", sessionid |-> 0, name |-> <<>>]
\* lines 108-113: the identifier and the name as on_sr_done prints them, the
\* name as the sequence of its characters.  how = "decoded": line 110 returned;
\* "fallback": decode raised and line 112 printed str() of the bytes;
\* "default": reading sr.name raised AttributeError and line 112 printed str(b"")
Report(buf, how) ==
    IF buf.state # "written" THEN UndefinedReport
    ELSE [seen |-> TRUE, how |-> how, sessionid |-> buf.sessionid,
          name |-> CASE how = "decoded" -> DecodeIgnore(CStr(buf.name))
                     [] how = "fallback" -> BytesRepr(CStr(buf.name))
                     [] OTHER -> BytesRepr(<<>>)]

\* The guarded calls whose failure the model injects: the start-sr emission
\* (157-162), the stop-sr emission (166-173), pipeline.set_state(NULL) (139-142,
\* 185-188, 210-213), pyds.free_gbuffer (205-209) and the decoding in on_sr_done
\* (97-115).  The guarded set_property of lines 55-58 sets the file prefix,
\* which is no part of the model's state: its failure changes nothing here.
AllFaults == {"start-sr", "stop-sr", "set_state", "free_gbuffer", "decode"}
Outcomes(call) == IF call \in faults THEN BOOLEAN ELSE {TRUE}
\* where on_sr_done may raise: nowhere, at the casts (98-99), at the strings
\* (102-103), at the size (107), in sr.name.decode (110, "name"), in reading
\* sr.name with an AttributeError ("name_attr") or with another exception,
\* which line 112 raises again ("name_access")
DecodeStages == {"none", "cast", "strings", "size", "name", "name_attr", "name_access"}
DecodeOutcomes == IF "decode" \in faults THEN DecodeStages ELSE {"none"}
\* the stages that end at line 114
ErrorStages == {"cast", "size", "name_access"}

\* ---- initial state: main() has not run yet ---------------------------------
Fresh ==
    /\ pc = "construct" /\ exitCode = -1 /\ now = 0 /\ schedAt = -1
    /\ pipeline = "NULL" /\ loopRunning = FALSE
    /\ timers = <<>> /\ pending = <<>>
    /\ busQueue = <<>> /\ posted = 0 /\ busRet = "none"
    /\ SR_DONE = FALSE /\ fallbackFired = FALSE
    /\ allocs = [b \in Buffers |-> 0] /\ frees = [b \in Buffers |-> 0]
    /\ startIssued = 0 /\ stopIssued = 0 /\ backIssued = -1 /\ stopAt = -1
    /\ quitCalls = 0 /\ stopCalls = 0
    /\ muxW = 0 /\ muxH = 0
    /\ sink0 = FALSE /\ qSinkLinked = FALSE /\ qSrcLinked = FALSE
    /\ pads = 0 /\ lastPad = NoPad /\ handlers = <<>> /\ boundCaps = NoCaps
    /\ startFailed = FALSE /\ freeFailed = {} /\ escaped = FALSE
    /\ ctxBuf = NoBuf /\ ctxOut = NoReport /\ srPc = "idle" /\ srAt = -1

ShippedConfig == backSec = BACK_SEC /\ cacheSec = CACHE_SEC
ShippedContext == ctxIn = [id |-> SESSION_ID, name |-> SR_DEMO]

\* the configuration as the file ships it (lines 16-19, 130-131); no call raises
Init == Fresh /\ ShippedConfig /\ ShippedContext /\ faults = {}

\* any pre-roll and any cache size, the cache size 0 included
InitAnyConfig ==
    Fresh /\ backSec \in 0..MaxBack /\ cacheSec \in 0..MaxCache /\ ShippedContext /\ faults = {}

\* any identifier and any name that fits the field
InitAnyContext == Fresh /\ ShippedConfig /\ ctxIn \in ContextInputs /\ faults = {}

\* any set of the guarded calls may raise
InitFaults == Fresh /\ ShippedConfig /\ ShippedContext /\ faults \in SUBSET AllFaults
\* only the start-sr emission may raise
InitStartFault == Fresh /\ ShippedConfig /\ ShippedContext /\ faults = {"start-sr"}
\* only the decoding in on_sr_done may raise
InitDecodeFault == Fresh /\ ShippedConfig /\ ShippedContext /\ faults = {"decode"}

\* ---- main(), straight-line part ---------------------------------------------

\* lines 31-120: create the pipeline and its elements, configure them, link
\* mux -> conv -> sink, connect the signal handlers.  Any failed creation or
\* link returns 1.
ConstructOutcomes == {"ok", "pipeline", "nvurisrcbin", "elements", "link"}

\* the buffers allocated ahead of the checks, so that an abort leaves them behind
MainConstructAllocFirst ==
    /\ pc = "construct"
    /\ \E outcome \in ConstructOutcomes :
        /\ IF outcome = "ok"
           THEN pc' = "start" /\ UNCHANGED exitCode
           ELSE pc' = "done" /\ exitCode' = 1
        /\ IF outcome \in {"ok", "link"}
           THEN muxW' = DEFAULT_WIDTH /\ muxH' = DEFAULT_HEIGHT
           ELSE UNCHANGED <<muxW, muxH>>
    /\ allocs' = [b \in Buffers |-> allocs[b] + 1]
    /\ ctxBuf' = WriteContext(ctxIn)
    /\ UNCHANGED <<now, pending, posted, loopVars, cfgVars, frees,
                   sink0, qSinkLinked, qSrcLinked, pads, lastPad, handlers, boundCaps>>
    /\ UNCHANGED <<faultVars, ctxIn, ctxOut, srPc, srAt>>

MainConstruct ==
    /\ pc = "construct"
    /\ \E outcome \in ConstructOutcomes :
        /\ IF outcome = "ok"
           THEN pc' = "alloc" /\ UNCHANGED exitCode
           ELSE pc' = "done" /\ exitCode' = 1
        \* lines 61-65 run after the element checks and before the link check
        /\ IF outcome \in {"ok", "link"}
           THEN muxW' = DEFAULT_WIDTH /\ muxH' = DEFAULT_HEIGHT
           ELSE UNCHANGED <<muxW, muxH>>
    /\ UNCHANGED <<now, pending, posted, loopVars, cfgVars, bufVars,
                   sink0, qSinkLinked, qSrcLinked, pads, lastPad, handlers, boundCaps>>
    /\ UNCHANGED <<faultVars, ctxVars>>

\* lines 123-131: allocate the two native buffers and fill the user context
MainAlloc ==
    /\ pc = "alloc"
    /\ allocs' = [b \in Buffers |-> allocs[b] + 1]
    /\ ctxBuf' = WriteContext(ctxIn)
    /\ pc' = "start"
    /\ UNCHANGED <<exitCode, now, pending, posted, loopVars, cfgVars, frees, negVars>>
    /\ UNCHANGED <<faultVars, ctxIn, ctxOut, srPc, srAt>>

\* lines 151-202: watch the bus, set the pipeline PLAYING, schedule do_start
\* and do_stop relative to now, create the loop and enter loop.run()
MainStart ==
    /\ pc = "start"
    /\ pipeline' = "PLAYING"
    /\ schedAt' = now
    /\ timers' = <<Timer("do_start", StartDeadline(now)), Timer("do_stop", StopDeadline(now))>>
    /\ loopRunning' = TRUE
    /\ pc' = "run"
    /\ UNCHANGED <<exitCode, now, pending, posted, busQueue, busRet, SR_DONE, fallbackFired,
                   startIssued, stopIssued, backIssued, stopAt, quitCalls, stopCalls,
                   backSec, cacheSec, bufVars, negVars>>
    /\ UNCHANGED <<faultVars, ctxVars>>

\* ---- callbacks ----------------------------------------------------------------
\* Each callback is given `rest`, the timeout sources that remain attached once
\* the one-shot source that is being dispatched has returned False.

\* pipeline.set_state(Gst.State.NULL) inside try / except: the pipeline stops
\* and its bus is flushed, or the call raises and the bus is left as `queue`
SetStateNull(queue) ==
    \E stopped \in Outcomes("set_state") :
        IF stopped
        THEN pipeline' = "NULL" /\ busQueue' = <<>>
        ELSE pipeline' = pipeline /\ busQueue' = queue

\* lines 183-190
do_quit(rest) ==
    /\ SetStateNull(busQueue)
    /\ stopCalls' = stopCalls + 1
    /\ loopRunning' = FALSE
    /\ quitCalls' = quitCalls + 1
    /\ timers' = rest
    /\ UNCHANGED <<busRet, SR_DONE, startIssued, stopIssued, backIssued, stopAt>>

\* lines 156-163 without the try / except: a failed emission ends the loop
do_start_uncaught(rest, emitted) ==
    /\ IF emitted
       THEN /\ backIssued' = ClampBack(backSec, cacheSec)
            /\ startIssued' = startIssued + 1
            /\ UNCHANGED <<startFailed, loopRunning, quitCalls>>
       ELSE /\ startFailed' = TRUE
            /\ loopRunning' = FALSE
            /\ quitCalls' = quitCalls + 1
            /\ UNCHANGED <<backIssued, startIssued>>
    /\ timers' = rest
    /\ UNCHANGED <<pipeline, busQueue, busRet, SR_DONE, fallbackFired,
                   stopIssued, stopAt, stopCalls>>

\* lines 156-163; emitted: nvuri.emit("start-sr", ...) did not raise
do_start(rest, emitted) ==
    /\ IF emitted
       THEN /\ backIssued' = ClampBack(backSec, cacheSec)
            /\ startIssued' = startIssued + 1
            /\ UNCHANGED startFailed
       ELSE /\ startFailed' = TRUE
            /\ UNCHANGED <<backIssued, startIssued>>
    /\ timers' = rest
    /\ UNCHANGED <<pipeline, loopRunning, busQueue, busRet, SR_DONE, fallbackFired,
                   stopIssued, stopAt, quitCalls, stopCalls>>

\* lines 165-181; emitted: one of the two stop-sr emissions (168, 170) did not
\* raise.  Line 180 is outside the try: the watchdog is armed either way.
do_stop(rest, emitted) ==
    /\ IF emitted
       THEN stopIssued' = stopIssued + 1 /\ stopAt' = now
       ELSE UNCHANGED <<stopIssued, stopAt>>
    /\ timers' = Append(rest, Timer("_fallback", FallbackDeadline(now)))
    /\ UNCHANGED <<pipeline, loopRunning, busQueue, busRet, SR_DONE, fallbackFired,
                   startIssued, backIssued, quitCalls, stopCalls>>

\* lines 175-179 with the flag test inverted
fallback_inverted(rest) ==
    IF SR_DONE
    THEN /\ fallbackFired' = TRUE
         /\ do_quit(rest)
    ELSE /\ timers' = rest
         /\ UNCHANGED <<pipeline, loopRunning, busQueue, busRet, SR_DONE, fallbackFired,
                        startIssued, stopIssued, backIssued, stopAt, quitCalls, stopCalls>>

\* lines 175-179 without the flag test
fallback_unconditional(rest) ==
    /\ fallbackFired' = TRUE
    /\ do_quit(rest)

\* lines 175-179
_fallback(rest) ==
    IF ~SR_DONE
    THEN /\ fallbackFired' = TRUE
         /\ do_quit(rest)
    ELSE /\ timers' = rest
         /\ UNCHANGED <<pipeline, loopRunning, busQueue, busRet, SR_DONE, fallbackFired,
                        startIssued, stopIssued, backIssued, stopAt, quitCalls, stopCalls>>

\* lines 134-149; msg is the message the bus watch popped
on_bus(msg) ==
    CASE msg = "ERROR" ->
            /\ SetStateNull(Tail(busQueue))
            /\ stopCalls' = stopCalls + 1
            /\ loopRunning' = FALSE
            /\ quitCalls' = quitCalls + 1
            /\ busRet' = "True"
      [] msg = "EOS" ->
            /\ loopRunning' = FALSE
            /\ quitCalls' = quitCalls + 1
            /\ busRet' = "True"
            /\ busQueue' = Tail(busQueue)
            /\ UNCHANGED <<pipeline, stopCalls>>
      [] OTHER ->
            /\ busRet' = "False"
            /\ busQueue' = Tail(busQueue)
            /\ UNCHANGED <<pipeline, stopCalls, loopRunning, quitCalls>>

\* lines 96-115: what the try block leaves behind; buf is what the echoed
\* pointer points at, stage is where the decoding raises
Decoded(buf, stage) ==
    CASE stage \in ErrorStages -> ErrorReport
      [] stage = "name" -> Report(buf, "fallback")
      [] stage = "name_attr" -> Report(buf, "default")
      [] OTHER -> Report(buf, "decoded")

\* The sr-done handler runs on a thread of the pipeline, beside the loop.  Its
\* steps: the report (97-115), the flag (117), the timer (118).

\* lines 97-115 with lines 117-118 at the end of the try block instead of in a
\* finally clause: a failure that reaches line 114 skips the flag and the timer
on_sr_done_no_finally(buf, stage) ==
    /\ ctxOut' = Decoded(buf, stage)
    /\ escaped' = FALSE
    /\ srPc' = IF stage \in ErrorStages THEN "returned" ELSE "flag"

\* lines 97-115: a failure at the strings (102-103) or in sr.name.decode (110)
\* is caught where it happens, any other at line 114; the finally clause follows
on_sr_done_report(buf, stage) ==
    /\ ctxOut' = Decoded(buf, stage)
    /\ escaped' = FALSE
    /\ srPc' = "flag"

\* line 117
on_sr_done_flag ==
    /\ SR_DONE' = TRUE
    /\ srPc' = "schedule"

\* line 118 with do_quit called in place instead of scheduled
on_sr_done_quits ==
    /\ pipeline' = "NULL" /\ busQueue' = <<>>
    /\ stopCalls' = stopCalls + 1
    /\ loopRunning' = FALSE
    /\ quitCalls' = quitCalls + 1
    /\ srPc' = "returned"
    /\ UNCHANGED timers

\* line 118: do_quit is scheduled one second later, and the handler returns
on_sr_done_schedule ==
    /\ timers' = Append(timers, Timer("do_quit", QuitDeadline(now)))
    /\ srPc' = "returned"
    /\ UNCHANGED <<pipeline, loopRunning, busQueue, quitCalls, stopCalls>>

\* A pad-added handler runs on the streaming thread that exposes the pad,
\* beside the loop and beside the handlers of other pads.  Its steps: the pad
\* request and the caps (73-81), the width (82), the height (83), the link
\* into q_src (86), the link into the mux (88).
Configured(caps) == caps.present /\ ~Raises(caps.width) /\ ~Raises(caps.height)
Handler(pos, caps) == [pc |-> pos, caps |-> caps, before |-> <<muxW, muxH>>]
Event(h) == [sinkpad |-> TRUE, caps |-> h.caps, before |-> h.before]
Remove(seq, i) == SubSeq(seq, 1, i - 1) \o SubSeq(seq, i + 1, Len(seq))
At(i, pos) == i \in 1..Len(handlers) /\ handlers[i].pc = pos
Goto(i, pos) == handlers' = [handlers EXCEPT ![i].pc = pos]
\* the handler returns
Return(i) ==
    /\ handlers' = Remove(handlers, i)
    /\ lastPad' = Event(handlers[i])

\* lines 73-81; sp: request_pad_simple returned a pad, caps: what the pad
\* reports.  A field that cannot be parsed raises before line 82.
cb_pad_added_request(sp, caps) ==
    IF ~sp
    THEN /\ lastPad' = [sinkpad |-> FALSE, caps |-> caps, before |-> <<muxW, muxH>>]
         /\ UNCHANGED <<sink0, handlers>>
    ELSE /\ sink0' = TRUE
         /\ handlers' = Append(handlers,
                               Handler(IF Configured(caps) THEN "width" ELSE "link_q", caps))
         /\ UNCHANGED lastPad

\* line 82
cb_pad_added_width(i) ==
    /\ muxW' = CapsWidth(handlers[i].caps.width)
    /\ Goto(i, "height")

\* line 83
cb_pad_added_height(i) ==
    /\ muxH' = CapsHeight(handlers[i].caps.height)
    /\ Goto(i, "link_q")

\* lines 86-87; l1: the link is otherwise possible
cb_pad_added_link_q(i, l1) ==
    IF l1 /\ ~qSinkLinked
    THEN qSinkLinked' = TRUE /\ Goto(i, "link_mux") /\ UNCHANGED lastPad
    ELSE Return(i) /\ UNCHANGED qSinkLinked

\* lines 88-89; l2: the link is otherwise possible
cb_pad_added_link_mux(i, l2) ==
    LET link2 == l2 /\ ~qSrcLinked
    IN  /\ qSrcLinked' = (qSrcLinked \/ link2)
        /\ boundCaps' = IF link2 THEN handlers[i].caps ELSE boundCaps
        /\ Return(i)

\* ---- the GLib main loop (line 202) --------------------------------------------

\* one iteration starts: collect the ready sources
LoopCheck ==
    /\ pc = "run" /\ loopRunning /\ pending = <<>>
    /\ Ready # <<>>
    /\ pending' = Ready
    /\ UNCHANGED <<pc, exitCode, now, posted, loopVars, cfgVars, bufVars, negVars>>
    /\ UNCHANGED <<faultVars, ctxVars>>

\* A callback of the loop is one step.  Of what the handlers on the pipeline's
\* threads write it reads only SR_DONE, once (line 176), and no handler reads
\* what it writes: a handler step that falls inside a callback (inside its
\* print or its set_state) leaves the state it leaves just before the callback,
\* or just after it when the callback has already read the flag.
Dispatching(k) == pc = "run" /\ pending # <<>> /\ Head(pending) = k

DispatchBus ==
    /\ Dispatching("bus")
    /\ pending' = Tail(pending)
    /\ IF busQueue = <<>>
       THEN UNCHANGED <<pipeline, loopRunning, busQueue, busRet, quitCalls, stopCalls>>
       ELSE on_bus(Head(busQueue))
    /\ UNCHANGED <<timers, SR_DONE, fallbackFired, startIssued, stopIssued, backIssued, stopAt>>
    /\ UNCHANGED <<pc, exitCode, now, posted, cfgVars, bufVars, negVars>>
    /\ UNCHANGED <<faultVars, ctxVars>>

DispatchStart ==
    /\ Dispatching("do_start")
    /\ pending' = Tail(pending)
    /\ \E emitted \in Outcomes("start-sr") : do_start(RemoveTimer("do_start"), emitted)
    /\ UNCHANGED <<pc, exitCode, now, posted, cfgVars, bufVars, negVars>>
    /\ UNCHANGED <<faults, freeFailed, escaped, ctxVars>>

DispatchStop ==
    /\ Dispatching("do_stop")
    /\ pending' = Tail(pending)
    /\ \E emitted \in Outcomes("stop-sr") : do_stop(RemoveTimer("do_stop"), emitted)
    /\ UNCHANGED <<pc, exitCode, now, posted, cfgVars, bufVars, negVars>>
    /\ UNCHANGED <<faultVars, ctxVars>>

DispatchFallback ==
    /\ Dispatching("_fallback")
    /\ pending' = Tail(pending)
    /\ _fallback(RemoveTimer("_fallback"))
    /\ UNCHANGED <<pc, exitCode, now, posted, cfgVars, bufVars, negVars>>
    /\ UNCHANGED <<faultVars, ctxVars>>

DispatchQuit ==
    /\ Dispatching("do_quit")
    /\ pending' = Tail(pending)
    /\ do_quit(RemoveTimer("do_quit"))
    /\ UNCHANGED fallbackFired
    /\ UNCHANGED <<pc, exitCode, now, posted, cfgVars, bufVars, negVars>>
    /\ UNCHANGED <<faultVars, ctxVars>>

\* loop.run() returns once an iteration ends with the running flag cleared
LoopReturn ==
    /\ pc = "run" /\ pending = <<>> /\ ~loopRunning
    /\ pc' = "free_sess"
    /\ UNCHANGED <<exitCode, now, pending, posted, loopVars, cfgVars, bufVars, negVars>>
    /\ UNCHANGED <<faultVars, ctxVars>>

\* ---- main(), the finally block (lines 203-215) ---------------------------------

\* pyds.free_gbuffer(b): the buffer is released, or the call raises
Free(b, freed) ==
    IF freed
    THEN frees' = [frees EXCEPT ![b] = @ + 1] /\ UNCHANGED freeFailed
    ELSE freeFailed' = freeFailed \cup {b} /\ UNCHANGED frees

\* line 206; when the call raises, line 208 catches it and line 207 is skipped
MainFreeSession ==
    /\ pc = "free_sess"
    /\ \E freed \in Outcomes("free_gbuffer") :
        /\ Free("sessionid_gbuf", freed)
        /\ pc' = IF freed THEN "free_ctx" ELSE "ensure_stop"
    /\ UNCHANGED <<exitCode, now, pending, posted, loopVars, cfgVars, allocs, negVars>>
    /\ UNCHANGED <<faults, startFailed, escaped, ctxVars>>

\* line 207 left out
MainFreeCtxSkipped ==
    /\ pc = "free_ctx"
    /\ pc' = "ensure_stop"
    /\ UNCHANGED <<exitCode, now, pending, posted, loopVars, cfgVars, bufVars, negVars>>
    /\ UNCHANGED <<faultVars, ctxVars>>

\* line 207
MainFreeCtx ==
    /\ pc = "free_ctx"
    /\ \E freed \in Outcomes("free_gbuffer") :
        /\ Free("user_ctx_gbuf", freed)
        /\ ctxBuf' = IF freed THEN ReleasedBuf ELSE ctxBuf
    /\ pc' = "ensure_stop"
    /\ UNCHANGED <<exitCode, now, pending, posted, loopVars, cfgVars, allocs, negVars>>
    /\ UNCHANGED <<faults, startFailed, escaped, ctxIn, ctxOut, srPc, srAt>>

\* lines 210-215
MainEnsureStop ==
    /\ pc = "ensure_stop"
    /\ SetStateNull(busQueue)
    /\ pc' = "done" /\ exitCode' = 0
    /\ UNCHANGED <<now, pending, posted, loopRunning, timers, busRet, SR_DONE, fallbackFired,
                   startIssued, stopIssued, backIssued, stopAt, quitCalls, stopCalls,
                   cfgVars, bufVars, negVars>>
    /\ UNCHANGED <<faultVars, ctxVars>>

\* ---- the environment -------------------------------------------------------------

\* A second passes.  Setup takes at most MaxSetup seconds; while the loop runs a
\* due timer waits at most MaxLate seconds for its dispatch, and the sr-done
\* handler returns at most MaxLate seconds after it was entered.
Tick ==
    /\ now < MaxTime
    /\ srPc \in {"report", "flag", "schedule"} => now < srAt + MaxLate
    /\ \/ pc \in {"construct", "alloc", "start"} /\ now < MaxSetup
       \/ /\ pc = "run" /\ loopRunning
          /\ \A i \in 1..Len(timers) : now < timers[i].due + MaxLate
    /\ now' = now + 1
    /\ UNCHANGED <<pc, exitCode, pending, posted, loopVars, cfgVars, bufVars, negVars>>
    /\ UNCHANGED <<faultVars, ctxVars>>

\* the pipeline posts a message on its bus
BusPost ==
    /\ pc # "done" /\ pipeline = "PLAYING" /\ posted < MaxMsgs
    /\ \E m \in MsgTypes : busQueue' = Append(busQueue, m)
    /\ posted' = posted + 1
    /\ UNCHANGED <<pc, exitCode, now, pending, pipeline, loopRunning, timers, busRet, SR_DONE,
                   fallbackFired, startIssued, stopIssued, backIssued, stopAt, quitCalls,
                   stopCalls, cfgVars, bufVars, negVars>>
    /\ UNCHANGED <<faultVars, ctxVars>>

\* nvurisrcbin emits sr-done for the recording that start-sr began: the handler
\* is entered on a thread of the pipeline
SrDone ==
    /\ pc # "done" /\ pipeline = "PLAYING" /\ startIssued > 0 /\ srPc = "idle"
    /\ srPc' = "report" /\ srAt' = now
    /\ UNCHANGED <<pc, exitCode, now, pending, posted, loopVars, cfgVars, bufVars, negVars>>
    /\ UNCHANGED <<faultVars, ctxIn, ctxBuf, ctxOut>>

\* the handler reads the buffer as it is when it gets there
SrDoneReport ==
    /\ pc # "done" /\ srPc = "report"
    /\ \E stage \in DecodeOutcomes : on_sr_done_report(ctxBuf, stage)
    /\ UNCHANGED <<pc, exitCode, now, pending, posted, loopVars, cfgVars, bufVars, negVars>>
    /\ UNCHANGED <<faults, startFailed, freeFailed, ctxIn, ctxBuf, srAt>>

SrDoneFlag ==
    /\ pc # "done" /\ srPc = "flag"
    /\ on_sr_done_flag
    /\ UNCHANGED <<pipeline, loopRunning, timers, busQueue, busRet, fallbackFired,
                   startIssued, stopIssued, backIssued, stopAt, quitCalls, stopCalls>>
    /\ UNCHANGED <<pc, exitCode, now, pending, posted, cfgVars, bufVars, negVars>>
    /\ UNCHANGED <<faultVars, ctxIn, ctxBuf, ctxOut, srAt>>

SrDoneSchedule ==
    /\ pc # "done" /\ srPc = "schedule"
    /\ on_sr_done_schedule
    /\ UNCHANGED <<busRet, SR_DONE, fallbackFired, startIssued, stopIssued, backIssued, stopAt>>
    /\ UNCHANGED <<pc, exitCode, now, pending, posted, cfgVars, bufVars, negVars>>
    /\ UNCHANGED <<faultVars, ctxIn, ctxBuf, ctxOut, srAt>>

\* nvurisrcbin emits pad-added: a handler is entered.  The first request of
\* sink_0 yields the pad; what a repeated request of the same name yields is
\* not defined by GStreamer.
PadAdded ==
    /\ pc # "done" /\ pipeline = "PLAYING" /\ pads < MaxPads
    /\ \E sp \in BOOLEAN, caps \in CapsSet :
        /\ ~sink0 => sp
        /\ cb_pad_added_request(sp, caps)
    /\ pads' = pads + 1
    /\ UNCHANGED <<muxW, muxH, qSinkLinked, qSrcLinked, boundCaps>>
    /\ UNCHANGED <<pc, exitCode, now, pending, posted, loopVars, cfgVars, bufVars>>
    /\ UNCHANGED <<faultVars, ctxVars>>

PadSetWidth ==
    /\ pc # "done"
    /\ \E i \in 1..Len(handlers) : At(i, "width") /\ cb_pad_added_width(i)
    /\ UNCHANGED <<muxH, sink0, qSinkLinked, qSrcLinked, pads, lastPad, boundCaps>>
    /\ UNCHANGED <<pc, exitCode, now, pending, posted, loopVars, cfgVars, bufVars>>
    /\ UNCHANGED <<faultVars, ctxVars>>

PadSetHeight ==
    /\ pc # "done"
    /\ \E i \in 1..Len(handlers) : At(i, "height") /\ cb_pad_added_height(i)
    /\ UNCHANGED <<muxW, sink0, qSinkLinked, qSrcLinked, pads, lastPad, boundCaps>>
    /\ UNCHANGED <<pc, exitCode, now, pending, posted, loopVars, cfgVars, bufVars>>
    /\ UNCHANGED <<faultVars, ctxVars>>

PadLinkQueue ==
    /\ pc # "done"
    /\ \E i \in 1..Len(handlers), l1 \in BOOLEAN : At(i, "link_q") /\ cb_pad_added_link_q(i, l1)
    /\ UNCHANGED <<muxW, muxH, sink0, qSrcLinked, pads, boundCaps>>
    /\ UNCHANGED <<pc, exitCode, now, pending, posted, loopVars, cfgVars, bufVars>>
    /\ UNCHANGED <<faultVars, ctxVars>>

PadLinkMux ==
    /\ pc # "done"
    /\ \E i \in 1..Len(handlers), l2 \in BOOLEAN : At(i, "link_mux") /\ cb_pad_added_link_mux(i, l2)
    /\ UNCHANGED <<muxW, muxH, sink0, qSinkLinked, pads>>
    /\ UNCHANGED <<pc, exitCode, now, pending, posted, loopVars, cfgVars, bufVars>>
    /\ UNCHANGED <<faultVars, ctxVars>>

SrDoneSteps == SrDoneReport \/ SrDoneFlag \/ SrDoneSchedule
PadSteps == PadSetWidth \/ PadSetHeight \/ PadLinkQueue \/ PadLinkMux

\* the session: main(), the loop and its callbacks, the clock, the bus, sr-done
SessionNext ==
    \/ MainConstruct \/ MainAlloc \/ MainStart
    \/ LoopCheck \/ DispatchBus \/ DispatchStart \/ DispatchStop
    \/ DispatchFallback \/ DispatchQuit \/ LoopReturn
    \/ MainFreeSession \/ MainFreeCtx \/ MainEnsureStop
    \/ Tick \/ BusPost \/ SrDone
    \/ SrDoneReport \/ SrDoneFlag \/ SrDoneSchedule

Next == SessionNext \/ PadAdded \/ PadSetWidth \/ PadSetHeight \/ PadLinkQueue \/ PadLinkMux

Spec == Init /\ [][Next]_vars

\* The session alone.  No session action reads or writes the negotiator's
\* variables except MainConstruct, which sets the mux defaults.
SessionSpec == Init /\ [][SessionNext]_vars

\* Every step main() or the loop can take is eventually taken, and the clock
\* keeps running: GLib dispatches a due timer, and main() is sequential code.
\* The thread of the sr-done handler is scheduled as long as the process lives.
Fairness ==
    /\ WF_vars(MainConstruct \/ MainAlloc \/ MainStart)
    /\ WF_vars(LoopCheck)
    /\ WF_vars(DispatchBus \/ DispatchStart \/ DispatchStop \/ DispatchFallback \/ DispatchQuit)
    /\ WF_vars(LoopReturn)
    /\ WF_vars(MainFreeSession \/ MainFreeCtx \/ MainEnsureStop)
    /\ WF_vars(Tick)
    /\ WF_vars(SrDoneSteps)

FairSessionSpec == SessionSpec /\ Fairness

\* The session under every configuration of pre-roll and cache size.
ConfigSpec == InitAnyConfig /\ [][SessionNext]_vars

\* The negotiator: pad-added events in a run that a bus message ends.  The
\* clock stands still, so no timer comes due.
NegotiatorNext ==
    \/ MainConstruct \/ MainAlloc \/ MainStart
    \/ PadAdded \/ PadSetWidth \/ PadSetHeight \/ PadLinkQueue \/ PadLinkMux
    \/ BusPost
    \/ LoopCheck \/ DispatchBus \/ LoopReturn
    \/ MainFreeSession \/ MainFreeCtx \/ MainEnsureStop

NegotiatorSpec == Init /\ [][NegotiatorNext]_vars

\* The session for every identifier and every name written into the user context.
ContextSpec == InitAnyContext /\ [][SessionNext]_vars

\* The session when the guarded calls may raise.
FaultSpec == InitFaults /\ [][SessionNext]_vars

\* The session when only the start-sr emission may raise.
StartFaultSpec == InitStartFault /\ [][SessionNext]_vars
FairStartFaultSpec == StartFaultSpec /\ Fairness

\* The session when only the decoding in on_sr_done may raise and the pipeline
\* posts no message on its bus: the run ends through the do_quit timer of the
\* handler or through the watchdog, whichever the interleaving of the handler's
\* thread with the loop brings first.
QuietNext ==
    \/ MainConstruct \/ MainAlloc \/ MainStart
    \/ LoopCheck \/ DispatchStart \/ DispatchStop
    \/ DispatchFallback \/ DispatchQuit \/ LoopReturn
    \/ MainFreeSession \/ MainFreeCtx \/ MainEnsureStop
    \/ Tick \/ SrDone
    \/ SrDoneReport \/ SrDoneFlag \/ SrDoneSchedule

DecodeFaultSpec == InitDecodeFault /\ [][QuietNext]_vars
FairDecodeFaultSpec == DecodeFaultSpec /\ Fairness


\* ---- properties ---------------------------------------------------------------------

Allocated == \A b \in Buffers : allocs[b] > 0
Released(b) == frees[b] > 0
Terminated == quitCalls > 0
CallbackStep ==
    \/ DispatchBus \/ DispatchStart \/ DispatchStop \/ DispatchFallback \/ DispatchQuit
    \/ SrDone \/ SrDoneSteps
NoNewTimer == \A i \in 1..Len(timers') : \E j \in 1..Len(timers) : timers'[i] = timers[j]

\* C1: in a run that allocated the two native buffers, no buffer is ever released
\* more often than it was allocated, and when main() has returned each buffer has
\* been allocated once and released once, whichever path ended the run.
C1_ReleasedExactlyOnce ==
    /\ \A b \in Buffers : frees[b] <= allocs[b]
    /\ (pc = "done" /\ Allocated) => \A b \in Buffers : allocs[b] = 1 /\ frees[b] = 1

\* C1 witness: a run ended by sr-done and the delayed do_quit, both buffers released
C1_Witness ==
    /\ pc = "done" /\ SR_DONE /\ ~fallbackFired /\ busRet = "none" /\ quitCalls = 1
    /\ \A b \in Buffers : allocs[b] = 1 /\ frees[b] = 1

\* C2: once a terminal path has run its cleanup (a callback has called loop.quit()),
\* every callback that runs afterwards changes nothing: no second pipeline stop, no
\* second loop.quit(), no trigger, no flag change, no new timer.
C2_TerminationIdempotent ==
    [][(Terminated /\ CallbackStep) =>
          /\ UNCHANGED <<pipeline, loopRunning, SR_DONE, fallbackFired,
                         startIssued, stopIssued, quitCalls, stopCalls>>
          /\ NoNewTimer]_vars

\* C3: a run that has entered loop.run() eventually leaves main() with the pipeline
\* stopped and both buffers released, whether or not sr-done, an error or an
\* end-of-stream ever arrives.
C3_RunTerminates ==
    (pc = "run") ~> (pc = "done" /\ pipeline = "NULL" /\ \A b \in Buffers : frees[b] = 1)

\* C3 witness: no message was ever posted and sr-done never came; the watchdog
\* forced the quit and the run ended with the buffers released
C3_Witness ==
    /\ pc = "done" /\ fallbackFired /\ ~SR_DONE /\ posted = 0
    /\ stopIssued = 1 /\ pipeline = "NULL" /\ \A b \in Buffers : frees[b] = 1

\* C4: the pre-roll passed with start-sr equals min(configured pre-roll, cache
\* capacity) for every pre-roll and every cache capacity, 0 included.
C4_EffectivePreRollIsMin ==
    startIssued > 0 => backIssued = Min(backSec, cacheSec)

\* C5: once start-sr has been issued, no native buffer is released before sr-done
\* has been observed or the watchdog has fired.
C5_BuffersOutliveRecording ==
    (startIssued > 0 /\ \E b \in Buffers : Released(b)) => (SR_DONE \/ fallbackFired)

\* C6: no native buffer is released while the pipeline is still running: on every
\* terminal path the pipeline is set to NULL before the first release.
C6_StopBeforeRelease ==
    (\E b \in Buffers : Released(b)) => pipeline = "NULL"

\* C7: for an error and for an end-of-stream message alike, on_bus stops the
\* pipeline, tells the loop to quit and returns True; for any other message it
\* returns False and changes no state.
C7_BusHandlerUniform ==
    [][(DispatchBus /\ busQueue # <<>>) =>
          IF Head(busQueue) \in {"ERROR", "EOS"}
          THEN pipeline' = "NULL" /\ ~loopRunning' /\ quitCalls' = quitCalls + 1
               /\ busRet' = "True"
          ELSE busRet' = "False"
               /\ UNCHANGED <<pipeline, loopRunning, timers, SR_DONE, fallbackFired,
                              startIssued, stopIssued, quitCalls, stopCalls>>]_vars

\* C8: stop-sr is never issued earlier than START_DELAY_SEC + FRONT_SEC + 1 seconds
\* after the timers were scheduled (11 seconds with the shipped 5 and 5), and
\* never before start-sr.
C8_StopNotBeforeDeadline ==
    stopIssued > 0 =>
        /\ stopAt >= schedAt + START_DELAY_SEC + FRONT_SEC + 1
        /\ stopAt - schedAt >= 11
        /\ startIssued > 0

\* C8 witness: stop-sr issued exactly at its deadline
C8_Witness ==
    stopIssued = 1 /\ startIssued = 1 /\ stopAt = schedAt + START_DELAY_SEC + FRONT_SEC + 1

\* C9: start-sr is issued at most once, stop-sr at most once, and neither is issued
\* after a callback has told the loop to quit.
C9_TriggersOnceNotAfterQuit ==
    [][/\ startIssued' <= 1 /\ stopIssued' <= 1
       /\ Terminated => (startIssued' = startIssued /\ stopIssued' = stopIssued)]_vars

FieldsAbsent(ev) ==
    ev.caps.present /\ ev.caps.width.kind = "absent" /\ ev.caps.height.kind = "absent"
MuxIsDefault == muxW = DEFAULT_WIDTH /\ muxH = DEFAULT_HEIGHT

\* C10: when the handler of a pad-added event whose caps have neither a width
\* nor a height field has returned, and no other handler has returned since, the
\* mux is configured with the default 1920x1080, whatever earlier events had set.
C10_DefaultWhenFieldsAbsent ==
    (pads > 0 /\ FieldsAbsent(lastPad)) => MuxIsDefault

HasTimer(k) == \E i \in 1..Len(timers) : timers[i].cb = k

\* C11: whenever on_sr_done has reported the echoed context, the identifier and
\* the name it reports are the identifier and the name bytes main() wrote, for
\* every identifier and every name that fits the 32-byte field.
C11_ContextRoundTrip ==
    ctxOut.seen =>
        /\ ctxOut.how # "undefined"
        /\ ctxOut.sessionid = ctxIn.id /\ ctxOut.name = ctxIn.name

\* C12: a _fallback timer is attached only by the do_stop callback; a
\* _fallback callback that finds the flag set stops nothing, quits nothing and
\* leaves no _fallback timer attached; one that finds the flag unset stops the
\* pipeline and quits the loop as do_quit does.
C12_WatchdogOnlyIfNotDone ==
    [][/\ (HasTimer("_fallback")' /\ ~HasTimer("_fallback")) => DispatchStop
       /\ (DispatchFallback /\ SR_DONE) =>
              /\ UNCHANGED <<pipeline, loopRunning, quitCalls, stopCalls, fallbackFired>>
              /\ ~HasTimer("_fallback")'
       /\ (DispatchFallback /\ ~SR_DONE) =>
              /\ pipeline' = "NULL" /\ ~loopRunning'
              /\ quitCalls' = quitCalls + 1 /\ stopCalls' = stopCalls + 1]_vars

\* C12 witness: sr-done was handled, then the watchdog expired and its callback
\* ran: the loop is still running, nothing was quit, no _fallback timer is left
C12_Witness ==
    /\ SR_DONE /\ stopIssued = 1 /\ now >= FallbackDeadline(stopAt)
    /\ ~HasTimer("_fallback") /\ pending = <<>>
    /\ ~fallbackFired /\ quitCalls = 0 /\ loopRunning /\ pipeline = "PLAYING"

\* C13: no step of the sr-done handler changes the loop's running flag or the
\* pipeline or calls loop.quit(); the handler returns with the flag set, in the
\* step that attaches one do_quit timer due QUIT_DELAY_SEC later; do_quit runs
\* from the loop only after the flag is set and not before that timer is due.
C13_CompletionSchedulesQuit ==
    [][/\ srPc' # srPc => UNCHANGED <<loopRunning, pipeline, quitCalls, stopCalls>>
       /\ (srPc' = "returned" /\ srPc # "returned") =>
              /\ SR_DONE
              /\ timers' = Append(timers, Timer("do_quit", now + QUIT_DELAY_SEC))
       /\ DispatchQuit =>
              /\ SR_DONE
              /\ \E i \in 1..Len(timers) : timers[i].cb = "do_quit" /\ timers[i].due <= now]_vars

\* C13 witness: the handler has returned, the loop is still running and the
\* do_quit timer is attached but not yet due
C13_Witness ==
    /\ srPc = "returned" /\ SR_DONE /\ loopRunning /\ pipeline = "PLAYING" /\ quitCalls = 0
    /\ \E i \in 1..Len(timers) : timers[i].cb = "do_quit" /\ timers[i].due = now + QUIT_DELAY_SEC

\* C14: whether the decoding succeeds or fails at any stage, the report step
\* leaves main() and the loop as they are and lets no exception out, the handler
\* goes on to set the flag, and it returns in the step that attaches one do_quit
\* timer; after the report main() returns, with exit code 0.
C14_DecodeFailureContained ==
    /\ [][/\ ctxOut' # ctxOut =>
                 /\ ~escaped' /\ srPc' = "flag"
                 /\ UNCHANGED <<loopRunning, pipeline, pc, exitCode>>
          /\ (srPc' = "returned" /\ srPc # "returned") =>
                 /\ SR_DONE /\ ctxOut # NoReport
                 /\ timers' = Append(timers, Timer("do_quit", QuitDeadline(now)))]_vars
    /\ [](srPc \in {"schedule", "returned"} => SR_DONE)
    /\ (ctxOut # NoReport) ~> (pc = "done" /\ exitCode = 0)
    /\ (ctxOut # NoReport) ~> (srPc = "returned" \/ pc = "done")

\* C14 witness: the decoding failed at line 98-99 or 107, the handler set the
\* flag and returned, and the run ended through the scheduled do_quit
C14_Witness ==
    /\ ctxOut = ErrorReport /\ srPc = "returned" /\ SR_DONE /\ ~escaped
    /\ pc = "done" /\ quitCalls = 1 /\ ~fallbackFired /\ busRet = "none"

\* C15: a start-sr emission that raises changes neither the loop's running flag
\* nor the pipeline and leaves the do_stop timer attached; unless a bus message
\* ends the run first, stop-sr is then issued, not before its deadline, and the
\* watchdog is armed by it and fires; the run ends with the pipeline stopped and
\* both buffers released.
C15_StartFailureContained ==
    /\ [][(startFailed' /\ ~startFailed) =>
              /\ UNCHANGED <<loopRunning, pipeline, quitCalls, stopCalls, pc>>
              /\ HasTimer("do_stop")']_vars
    /\ [][(startFailed /\ stopIssued' = stopIssued + 1) =>
              /\ now >= StopDeadline(schedAt)
              /\ HasTimer("_fallback")']_vars
    /\ [](startFailed /\ pc = "done" /\ busRet # "True" => stopIssued = 1 /\ fallbackFired)
    /\ startFailed ~> (pc = "done" /\ pipeline = "NULL" /\ \A b \in Buffers : frees[b] = 1)

\* C15 witness: start-sr raised, stop-sr was issued all the same, the watchdog
\* ended the run and both buffers were released
C15_Witness ==
    /\ startFailed /\ startIssued = 0 /\ stopIssued = 1 /\ fallbackFired
    /\ pc = "done" /\ \A b \in Buffers : frees[b] = 1

\* C16: when main() has returned after pyds.free_gbuffer(sessionid_gbuf) raised,
\* the user-context buffer has been released and the pipeline is stopped.
C16_ReleaseFailureDoesNotStopCleanup ==
    (pc = "done" /\ "sessionid_gbuf" \in freeFailed) =>
        (frees["user_ctx_gbuf"] = 1 /\ pipeline = "NULL")

\* the geometry a pad's caps stand for: each field's value, the default for a
\* field that is absent or cannot be parsed, the default when there are no caps
Discovered(f, default) == IF f.kind = "int" THEN f.val ELSE default
DiscoveredWidth(caps) == IF caps.present THEN Discovered(caps.width, DEFAULT_WIDTH) ELSE DEFAULT_WIDTH
DiscoveredHeight(caps) == IF caps.present THEN Discovered(caps.height, DEFAULT_HEIGHT) ELSE DEFAULT_HEIGHT
ConfigureFailed(caps) == caps.present /\ (Raises(caps.width) \/ Raises(caps.height))

\* C17: whenever a pad is linked through q_src into the mux, the mux width and
\* height are the geometry discovered for that pad, with the default for an
\* absent or unparsable field, whatever pad-added events came before or after.
C17_MuxGeometryIsLinkedPads ==
    qSrcLinked => (muxW = DiscoveredWidth(boundCaps) /\ muxH = DiscoveredHeight(boundCaps))

\* C18: when the handler of a pad-added event whose pad has no caps at all has
\* returned, and no other handler has returned since, the mux is
\* configured with the default 1920x1080, whatever earlier events had set.
C18_DefaultWhenNoCaps ==
    (lastPad # NoPad /\ ~lastPad.caps.present) => MuxIsDefault

\* C19: a pad is linked through q_src into the mux only by an event whose
\* configure step did not fail.
C19_BoundOnlyIfConfigured ==
    qSrcLinked => ~ConfigureFailed(boundCaps)

\* C20: when main() has returned 1, it did so from the construction: no buffer
\* was allocated, no timer was attached or scheduled, the pipeline was not set
\* PLAYING, the loop never ran, and no start-sr or stop-sr was issued.
C20_ConstructionFailureAborts ==
    exitCode = 1 =>
        /\ pc = "done"
        /\ \A b \in Buffers : allocs[b] = 0 /\ frees[b] = 0
        /\ timers = <<>> /\ schedAt = -1
        /\ pipeline = "NULL" /\ ~loopRunning /\ quitCalls = 0
        /\ startIssued = 0 /\ stopIssued = 0 /\ ~SR_DONE

\* C20 witness: the static link failed after the mux had been configured
C20_Witness ==
    exitCode = 1 /\ pc = "done" /\ MuxIsDefault /\ allocs["user_ctx_gbuf"] = 0
====
